---- MODULE Spec2Model ----
(***************************************************************************)
(* The CircleCI artifact resolver of scripts/testing-utils.js (the class   *)
(* CircleCIArtifacts, second version of the file) as a state machine.      *)
(*                                                                         *)
(* One resolver instance is constructed, initialize(branchName) is called  *)
(* on it once, and artifact lookups (#findUrlForJob) are called on it.     *)
(* Every await of the code is a yield point: an action runs from the       *)
(* arrival of a response to the next await (or to the settling of the      *)
(* async function).  The CI server is the environment: it answers every    *)
(* GET with any response drawn from small pools.                           *)
(***************************************************************************)
EXTENDS Integers, Sequences, FiniteSets, TLC

\* ------------------------------------------------------------------ bounds
MaxPipelines == 2   \* longest pipeline list the server returns
MaxWorkflows == 2   \* longest workflow list the server returns
MaxJobs      == 2   \* longest job list the server returns for one workflow
MaxArtifacts == 2   \* longest artifact list the server returns
MaxLookups   == 2   \* number of artifact lookups made on the resolver
MaxDownloads == 2   \* number of downloadArtifact calls made
MaxCalls     == 2   \* number of initialize calls made on the module

SeqsUpTo(S, n) == UNION {[1..k -> S] : k \in 0..n}

\* ------------------------------------------------------------------ values
\* The JavaScript value undefined, and an array held by a field that may
\* also be undefined.
Undefined == [tag |-> "undefined"]
Array(items) == [tag |-> "array", items |-> items]

Tokens   == {"token-A"}
TmpPaths == {"/tmp/react-native-tmp"}
Branches == {"main"}

ReleaseWorkflowName == "package_and_publish_release_dryrun"
TestsWorkflowName   == "tests"

Statuses == {"success", "running", "failed"}

Pipelines == {[id |-> "p1", number |-> 42], [id |-> "p2", number |-> 41]}

WorkflowIdOf(name) ==
    IF name = ReleaseWorkflowName THEN "w1"
    ELSE IF name = TestsWorkflowName THEN "w2" ELSE "w3"

Workflows ==
    {[id |-> WorkflowIdOf(n), name |-> n, status |-> s] :
        n \in {ReleaseWorkflowName, TestsWorkflowName}, s \in Statuses}
    \cup {[id |-> "w3", name |-> "analyze_code", status |-> "success"]}

Jobs ==
    { [name |-> "build_hermes_macos-Debug", job_number |-> 7],
      [name |-> "test_android",             job_number |-> 9] }

JobNames == {"build_hermes_macos-Debug", "test_android"}

\* Artifact paths and path fragments are strings, modelled as sequences of
\* characters so that indexOf is computed and not assumed.  The two paths
\* share a prefix; one fragment occurs in both, the other in one only, and
\* not at its start.
Artifacts ==
    { [path |-> <<"a", "b">>,      url |-> "url-ab"],
      [path |-> <<"a", "b", "c">>, url |-> "url-abc"] }

Fragments == { <<"a", "b">>, <<"b", "c">> }

\* What the promisified request() can produce: a response whose body parses
\* to {items: [...]}, a response carrying a truthy .error, or a rejection of
\* the request promise itself (the transport failed).
Responses(Items, n) ==
    {[status |-> "ok", items |-> l] : l \in SeqsUpTo(Items, n)}
    \cup {[status |-> "error", items |-> <<>>],
          [status |-> "rejected", items |-> <<>>]}

\* The job list of one workflow names each of its jobs once (the two
\* workflows may still both have a job of a given name).
JobResponses ==
    {resp \in Responses(Jobs, MaxJobs) :
        \A i, j \in 1..Len(resp.items) : i # j => resp.items[i] # resp.items[j]}

\* ------------------------------------------------------------------ errors
NoError == [name |-> "none", subject |-> "", detail |-> ""]

\* `new Error("The <name> workflow status is <status>. Please, wait ...")`
WorkflowStatusError(workflow) ==
    [name |-> "Error", subject |-> workflow.name, detail |-> workflow.status]

\* "TypeError: Cannot read properties of undefined (reading '<property>')"
TypeErrorReading(property) ==
    [name |-> "TypeError", subject |-> "undefined", detail |-> property]

\* `throw new Error(error)` where no variable `error` is in scope.
ReferenceErrorOfError ==
    [name |-> "ReferenceError", subject |-> "error", detail |-> "is not defined"]

\* The rejection of the request promise, passed through by `await`.
TransportError ==
    [name |-> "TransportError", subject |-> "request", detail |-> "rejected"]

\* The error an unsuccessful request raises in the four fetch methods.
RequestFailure(resp) ==
    IF resp.status = "rejected" THEN TransportError ELSE ReferenceErrorOfError

\* ------------------------------------------------------------------- state
VARIABLES
    circleCIToken,            \* this.circleCIToken, set by the constructor
    circleCIHeaders,          \* this.circleCIHeaders, read by every request
    baseTmpPath,              \* this.baseTmpPath, set by the constructor
    jobs,                     \* this.jobs, set at the end of initialize
    pc,                       \* where the one initialize call stands
    pipeline,                 \* initialize's local `pipeline`
    packageAndReleaseWorkflow,\* initialize's local of that name
    testsWorkflow,            \* initialize's local of that name
    jobsResults,              \* the two slots of Promise.all(jobsPromises)
    initError,                \* the error initialize's promise rejected with
    requests,                 \* every call of request(options), in order
    unhandledRejections,      \* rejected promises nobody awaits or catches
    unhandledRejectionsMode,  \* what the runtime does with those
    lookup,                   \* the #findUrlForJob call in progress
    lookupResult,             \* how the last #findUrlForJob call settled
    lookups,                  \* number of #findUrlForJob calls made
    arrivals,                 \* the job lists the server sent, as they arrived
    commands,                 \* the exec calls that write to disk, in order
    fileSystem,               \* what is at each download destination
    downloads,                \* number of downloadArtifact calls made
    device,                   \* the ABI of the connected device or emulator
    argv,                     \* the command line of test-e2e-local.js
    gitBranch,                \* the branch checked out where the script runs
    main,                     \* where main() of test-e2e-local.js stands
    test,                     \* the test function main calls, and its locals
    testingUtils,             \* the `let`s of the module-level resolver
    initializeCalls           \* the initialize calls made on that module

vars == << circleCIToken, circleCIHeaders, baseTmpPath, jobs, pc, pipeline,
           packageAndReleaseWorkflow, testsWorkflow, jobsResults, initError,
           requests, unhandledRejections, unhandledRejectionsMode,
           lookup, lookupResult, lookups, arrivals,
           commands, fileSystem, downloads, device, argv, gitBranch, main,
           test, testingUtils, initializeCalls >>

fields   == << circleCIToken, circleCIHeaders, baseTmpPath >>
initVars == << pc, pipeline, packageAndReleaseWorkflow, testsWorkflow,
               jobsResults, initError, jobs, unhandledRejections,
               arrivals >>
lookVars == << lookup, lookupResult, lookups >>
\* What lies outside the resolver: the shell, the device and the script.
shell    == << commands, fileSystem, downloads >>
script   == << argv, gitBranch, main >>
moduleLevel == << testingUtils, initializeCalls >>
outside  == << shell, device, script, test, moduleLevel >>

\* A slot of the array Promise.all resolves to.
NotIssued == [state |-> "none",    items |-> <<>>]
Pending   == [state |-> "pending", items |-> <<>>]
Failed    == [state |-> "failed",  items |-> <<>>]
Arrived(items) == [state |-> "arrived", items |-> items]

NoLookup     == [pc |-> "idle", jobName |-> "", artifactPath |-> <<>>]
\* How a #findUrlForJob call settled.  `candidates` observes the call: the
\* number of entries of the fetched artifact list whose path contains the
\* fragment, or -1 when the call fetched no list.
NoResult        == [kind |-> "none",  url |-> "", error |-> NoError,
                    candidates |-> -1]
Returned(u, n)  == [kind |-> "url",   url |-> u,  error |-> NoError,
                    candidates |-> n]
Thrown(e, n)    == [kind |-> "throw", url |-> "", error |-> e,
                    candidates |-> n]

\* ------------------------------------------------------------ the requests
\* options = {method: 'GET', url: ..., headers: this.circleCIHeaders}
Request(endpoint, target, headers) ==
    [method |-> "GET", endpoint |-> endpoint, target |-> target,
     headers |-> headers]

\* ---------------------------------------------------------------- the shell
\* A command line given to shelljs exec.  The interpolated values are the
\* paths and urls of the callers, which hold no blank and no shell
\* metacharacter.
Mkdir(path) ==
    [program |-> "mkdir", flags |-> "-p", url |-> "", destination |-> path]
Rm(destination) ==
    [program |-> "rm", flags |-> "-rf", url |-> "", destination |-> destination]
Curl(url, destination) ==
    [program |-> "curl", flags |-> "-Lo", url |-> url,
     destination |-> destination]

\* One exec call, as the log keeps it.
Executed(command, code) == [command |-> command, code |-> code]

\* The destinations the callers download to, and what can be there: nothing,
\* a file or a directory.  `parts` is what the entry holds; a part names the
\* url it was fetched from and the download that wrote it (0: it was there
\* before the script ran).
Destinations ==
    {"/tmp/react-native-tmp/hermes-ios-debug.tar.gz",
     "/tmp/packaged-react-native.tar.gz"}

DownloadUrls == {a.url : a \in Artifacts}

Absent           == [kind |-> "absent",    parts |-> {}]
File(parts)      == [kind |-> "file",      parts |-> parts]
Directory(parts) == [kind |-> "directory", parts |-> parts]

Part(url, generation, complete) ==
    [from |-> url, generation |-> generation, complete |-> complete]

Leftover == Part("earlier", 0, TRUE)

LeftoverContents == {Absent, File({Leftover}), Directory({Leftover})}

\* How a curl run can end: the whole body written, the transfer cut after
\* part of it was written, or nothing received at all.
CurlOutcomes == {"complete", "cut", "nothing"}

\* The ABI `adb shell getprop ro.product.cpu.abi` reports, and the value
\* of `device` when no device is asked.
ABIs     == {"arm64-v8a", "x86_64"}
NoDevice == "none"

\* ------------------------------------------------------------- the script
\* argv of test-e2e-local.js (yargs): --circleciToken is optional.
Targets      == {"RNTester", "RNTestProject"}
Platforms    == {"iOS", "Android"}
GitBranches  == {"main", "0.72-stable", "HEAD"}

String(value) == [tag |-> "string", value |-> value]

Argvs ==
    [circleciToken : {String(t) : t \in Tokens} \cup {Undefined},
     target : Targets,
     platform : Platforms, hermes : BOOLEAN]

Null == [tag |-> "null"]

\* The promise setupCircleCIArtifacts returns, and main() itself.
SetupNotCalled    == [state |-> "none",      value |-> Undefined, error |-> NoError]
SetupReturned(v)  == [state |-> "fulfilled", value |-> v,         error |-> NoError]
SetupThrew(e)     == [state |-> "rejected",  value |-> Undefined, error |-> e]

\* What main passes to a test function: the resolver object or null.
Resolver == [tag |-> "object"]

\* How a call of circleCIArtifacts.baseTmpPath() ended, if one was made.
NotCalled       == [kind |-> "none",   value |-> "", error |-> NoError]
PathReturned(v) == [kind |-> "return", value |-> v,  error |-> NoError]
CallThrew(e)    == [kind |-> "throw",  value |-> "", error |-> e]

\* What maybeLaunchAndroidEmulator found and did, if it was called.
NoEmulatorCheck ==
    [called |-> FALSE, connected |-> FALSE, listed |-> <<>>, launched |-> ""]

\* No test function has been called.
NoTest ==
    [name |-> "", pc |-> "none", circleCIArtifacts |-> Null,
     error |-> NoError, baseTmpPath |-> NotCalled,
     emulator |-> NoEmulatorCheck]

\* The module-level resolver before any initialize call: its three `let`s
\* hold nothing, and no call is in progress.
NotInitialized ==
    [circleCIHeaders |-> Undefined, jobs |-> Undefined,
     baseTemporaryPath |-> Undefined]
NoCalls == << >>

\* What `curl http://localhost:8081/status` gives back: the bundler's
\* answer, the answer of something else that listens on the port, or
\* nothing and a failure code when nothing listens.
NoReply == [code |-> -1, stdout |-> ""]
PackagerReplies ==
    {[code |-> 0, stdout |-> "packager-status:running"],
     [code |-> 0, stdout |-> "<!DOCTYPE html>"],
     [code |-> 7, stdout |-> ""]}

NotRunning ==
    [pc |-> "none", setup |-> SetupNotCalled, circleCIArtifacts |-> Undefined,
     test |-> "", error |-> NoError, packager |-> NoReply,
     isPackagerRunning |-> ""]
Started == [NotRunning EXCEPT !.pc = "start"]

\* The resolver used by itself: no script runs, no device is asked and
\* nothing is at the destinations.
Standalone ==
    /\ fileSystem = [d \in Destinations |-> Absent]
    /\ downloads = 0
    /\ device = NoDevice
    /\ argv = [circleciToken |-> Undefined, target |-> "RNTester",
               platform |-> "iOS", hermes |-> FALSE]
    /\ gitBranch = "main"
    /\ main = NotRunning
    /\ test = NoTest
    /\ testingUtils = NotInitialized
    /\ initializeCalls = NoCalls

\* The constructor: `this.circleCIToken = {'Circle-Token': circleCIToken}`,
\* `this.baseTmpPath = baseTmpPath` and `exec(`mkdir -p ${baseTmpPath}`)`.
\* It assigns no other header field: this.circleCIHeaders stays undefined.
Constructed ==
    /\ \E t \in Tokens : circleCIToken = [CircleToken |-> t]
    /\ circleCIHeaders = Undefined
    /\ baseTmpPath \in TmpPaths
    /\ jobs = Undefined
    /\ pc = "constructed"
    /\ pipeline = Undefined
    /\ packageAndReleaseWorkflow = Undefined
    /\ testsWorkflow = Undefined
    /\ jobsResults = <<NotIssued, NotIssued>>
    /\ initError = NoError
    /\ requests = <<>>
    /\ unhandledRejections = <<>>
    /\ unhandledRejectionsMode \in {"warn", "throw"}
    /\ lookup = NoLookup
    /\ lookupResult = NoResult
    /\ lookups = 0
    /\ arrivals = <<>>
    /\ commands = <<Executed(Mkdir(baseTmpPath), 0)>>

Init == Constructed /\ Standalone

\* --------------------------------------------------------- pure operations
\* Array.prototype.find, given the set of the indices (from 1) whose element
\* satisfies the callback: the element at the least of them, or undefined.
find(items, satisfying) ==
    IF satisfying = {} THEN Undefined
    ELSE items[CHOOSE i \in satisfying : \A j \in satisfying : i <= j]

\* String.prototype.indexOf: the first position (from 0) at which
\* searchString occurs in str, or -1.
indexOf(str, searchString) ==
    LET Occurs(i) == SubSeq(str, i + 1, i + Len(searchString)) = searchString
        Positions == {i \in 0..(Len(str) - Len(searchString)) : Occurs(i)}
    IN  IF Positions = {} THEN -1
        ELSE CHOOSE i \in Positions : \A j \in Positions : i <= j

\* A client that sends every request a second time.
requestWithRetry(history, options) == history \o <<options, options>>

\* A client that answers a request it has already sent from a cache.
requestOnce(history, options) ==
    IF \E i \in 1..Len(history) : history[i] = options
    THEN history ELSE Append(history, options)

\* `request(options)`: one call of the HTTP client, one GET on the wire.
request(history, options) == Append(history, options)

\* A selection of the pipeline with the highest number.
getHighestNumberedPipeline(items) ==
    IF items = <<>> THEN Undefined
    ELSE LET last == CHOOSE i \in 1..Len(items) :
                         \A j \in 1..Len(items) :
                             items[j].number <= items[i].number
         IN  [id |-> items[last].id, number |-> items[last].number]

\* `const lastPipeline = JSON.parse(response.body).items[0];
\*  return {id: lastPipeline.id, number: lastPipeline.number};`
\* Undefined stands for the TypeError of reading .id of undefined.
getLastCircleCIPipelineID(items) ==
    IF items = <<>> THEN Undefined
    ELSE [id |-> items[1].id, number |-> items[1].number]

\* body.items.find(workflow => workflow.name === workflowName)
getSpecificWorkflow(items, workflowName) ==
    find(items, {i \in 1..Len(items) : items[i].name = workflowName})

\* A lookup that falls back to the first job when none has the name.
findJobOrFirst(jobList, jobName) ==
    LET named == {i \in 1..Len(jobList) : jobList[i].name = jobName}
    IN  IF jobList = <<>> \/ named # {}
        THEN find(jobList, named)
        ELSE jobList[1]

\* this.jobs.find(j => j.name === jobName)
findJob(jobList, jobName) ==
    find(jobList, {i \in 1..Len(jobList) : jobList[i].name = jobName})

\* A scan that keeps the last artifact whose path contains artifactPath.
findLastArtifact(artifacts, artifactPath) ==
    LET Matching == {i \in 1..Len(artifacts) :
                        indexOf(artifacts[i].path, artifactPath) > -1}
    IN  IF Matching = {} THEN Undefined
        ELSE artifacts[CHOOSE i \in Matching : \A j \in Matching : j <= i]

\* artifacts.find(artifact => artifact.path.indexOf(artifactPath) > -1)
findArtifact(artifacts, artifactPath) ==
    find(artifacts, {i \in 1..Len(artifacts) :
                        indexOf(artifacts[i].path, artifactPath) > -1})

\* The promise #throwIfPendingOrUnsuccessfulWorkflow(workflow) returns: the
\* method is async, so what it throws rejects that promise.
throwIfPendingOrUnsuccessfulWorkflow(workflow) ==
    IF workflow = Undefined THEN TypeErrorReading("status")
    ELSE IF workflow.status # "success" THEN WorkflowStatusError(workflow)
    ELSE NoError

\* jobsResults.flatMap(jobs => jobs)
RECURSIVE flatMap(_)
flatMap(results) ==
    IF results = <<>> THEN <<>>
    ELSE Head(results).items \o flatMap(Tail(results))

\* A fetch that turns a failure into an empty job list.
getCircleCIJobsOrEmpty(resp) == [state |-> "arrived", items |-> resp.items]

\* How the promise #getCircleCIJobs(workflowId) returns settles: rejected
\* when the request failed, fulfilled with body.items otherwise.
getCircleCIJobs(resp) ==
    IF resp.status # "ok" THEN [state |-> "failed", items |-> <<>>]
    ELSE [state |-> "arrived", items |-> resp.items]

\* A join that collects the values in the order they arrive.
StoreInArrivalOrder(results, index, items) ==
    LET free == CHOOSE i \in 1..Len(results) :
                    /\ results[i].state = "pending"
                    /\ \A j \in 1..(i - 1) : results[j].state # "pending"
    IN  [results EXCEPT ![free] = Arrived(items)]

\* Promise.all puts each value at the index of its promise.
StoreResult(results, index, items) ==
    [results EXCEPT ![index] = Arrived(items)]

\* A join that fulfils with the first promise that fulfils (Promise.any).
AnyArrived(results) ==
    \E i \in 1..Len(results) : results[i].state = "arrived"

\* Promise.all fulfils when every promise of the array has fulfilled.
AllArrived(results) ==
    \A i \in 1..Len(results) : results[i].state = "arrived"

\* An initialize that fills this.jobs with each list as it arrives.
AssignJobsAsTheyArrive(current, results) ==
    Array(flatMap(SelectSeq(results, LAMBDA r : r.state = "arrived")))

\* `const jobsResults = await Promise.all(jobsPromises);
\*  this.jobs = jobsResults.flatMap(jobs => jobs);`
\* The assignment is reached only once Promise.all has fulfilled.
AssignJobs(current, results) ==
    IF AllArrived(results) THEN Array(flatMap(results)) ELSE current

\* ------------------------------------------------------------- the runtime
\* initialize calls #throwIfPendingOrUnsuccessfulWorkflow without await and
\* without a catch: a rejection of the promise it returns reaches nobody.
\* The runtime either reports it and goes on (Node before 15, or
\* --unhandled-rejections=warn) or ends the process once the current tick
\* is over (Node 15 and later, by default).
Unhandled(rejections, error) ==
    IF error = NoError THEN rejections ELSE Append(rejections, error)

ProcessEnds(error) ==
    error # NoError /\ unhandledRejectionsMode = "throw"

\* -------------------------------------------------------------- initialize
\* initialize(branchName) up to its first await: #getLastCircleCIPipelineID
\* builds its options and calls request.
Initialize(branchName) ==
    /\ pc = "constructed"
    /\ requests' = request(requests,
                           Request("pipeline", branchName, circleCIHeaders))
    /\ pc' = "awaitPipeline"
    /\ UNCHANGED << outside, fields, jobs, pipeline, packageAndReleaseWorkflow,
                    testsWorkflow, jobsResults, initError,
                    unhandledRejections, unhandledRejectionsMode, lookVars,
                    arrivals >>

\* The pipeline list arrives: items[0] is taken and the release workflow
\* is asked for.
PipelineResponse(resp) ==
    /\ pc = "awaitPipeline"
    /\ IF resp.status # "ok"
       THEN /\ pc' = "rejected"
            /\ initError' = RequestFailure(resp)
            /\ UNCHANGED << pipeline, requests >>
       ELSE LET last == getLastCircleCIPipelineID(resp.items)
            IN  IF last = Undefined
                THEN \* lastPipeline is undefined: lastPipeline.id throws
                     /\ pc' = "rejected"
                     /\ initError' = TypeErrorReading("id")
                     /\ UNCHANGED << pipeline, requests >>
                ELSE /\ pipeline' = last
                     /\ requests' = request(requests,
                            Request("workflow", last.id, circleCIHeaders))
                     /\ pc' = "awaitReleaseWorkflow"
                     /\ UNCHANGED initError
    /\ UNCHANGED << outside, fields, jobs, packageAndReleaseWorkflow, testsWorkflow,
                    jobsResults, unhandledRejections,
                    unhandledRejectionsMode, lookVars, arrivals >>

\* The first workflow list arrives: the release workflow is looked for, its
\* check is started and not awaited, and the tests workflow is asked for.
ReleaseWorkflowResponse(resp) ==
    /\ pc = "awaitReleaseWorkflow"
    /\ IF resp.status # "ok"
       THEN /\ pc' = "rejected"
            /\ initError' = RequestFailure(resp)
            /\ UNCHANGED << packageAndReleaseWorkflow, requests,
                            unhandledRejections >>
       ELSE LET workflow == getSpecificWorkflow(resp.items, ReleaseWorkflowName)
                check    == throwIfPendingOrUnsuccessfulWorkflow(workflow)
            IN  /\ packageAndReleaseWorkflow' = workflow
                /\ unhandledRejections' = Unhandled(unhandledRejections, check)
                /\ requests' = request(requests,
                       Request("workflow", pipeline.id, circleCIHeaders))
                /\ pc' = IF ProcessEnds(check) THEN "crashed"
                         ELSE "awaitTestsWorkflow"
                /\ UNCHANGED initError
    /\ UNCHANGED << outside, fields, jobs, pipeline, testsWorkflow, jobsResults,
                    unhandledRejectionsMode, lookVars, arrivals >>

\* The second workflow list arrives: the tests workflow is looked for, its
\* check is started and not awaited, and the two job lists are asked for,
\* one after the other, before Promise.all is awaited.  Reading .id of a
\* workflow that was not found throws inside initialize.
TestsWorkflowResponse(resp) ==
    /\ pc = "awaitTestsWorkflow"
    /\ IF resp.status # "ok"
       THEN /\ pc' = "rejected"
            /\ initError' = RequestFailure(resp)
            /\ UNCHANGED << testsWorkflow, requests, jobsResults,
                            unhandledRejections >>
       ELSE LET workflow == getSpecificWorkflow(resp.items, TestsWorkflowName)
                check    == throwIfPendingOrUnsuccessfulWorkflow(workflow)
                first    == Request("job", packageAndReleaseWorkflow.id,
                                    circleCIHeaders)
                second   == Request("job", workflow.id, circleCIHeaders)
            IN  /\ testsWorkflow' = workflow
                /\ unhandledRejections' = Unhandled(unhandledRejections, check)
                /\ IF packageAndReleaseWorkflow = Undefined
                   THEN /\ initError' = TypeErrorReading("id")
                        /\ pc' = IF ProcessEnds(check) THEN "crashed"
                                 ELSE "rejected"
                        /\ UNCHANGED << requests, jobsResults >>
                   ELSE IF workflow = Undefined
                   THEN /\ initError' = TypeErrorReading("id")
                        /\ requests' = request(requests, first)
                        /\ jobsResults' = <<Pending, NotIssued>>
                        /\ pc' = IF ProcessEnds(check) THEN "crashed"
                                 ELSE "rejected"
                   ELSE /\ requests' = request(request(requests, first),
                                                second)
                        /\ jobsResults' = <<Pending, Pending>>
                        /\ pc' = IF ProcessEnds(check) THEN "crashed"
                                 ELSE "awaitJobs"
                        /\ UNCHANGED initError
    /\ UNCHANGED << outside, fields, jobs, pipeline, packageAndReleaseWorkflow,
                    unhandledRejectionsMode, lookVars, arrivals >>

\* One of the two job lists arrives.  Promise.all rejects with the first
\* failure and fulfils when both lists are there; initialize then flattens
\* them into this.jobs.  A response that arrives after initialize has
\* settled changes nothing but its own slot.
JobsResponse(index, resp) ==
    /\ pc \in {"awaitJobs", "rejected"}
    /\ jobsResults[index].state = "pending"
    /\ arrivals' = Append(arrivals, [index |-> index, response |-> resp])
    /\ IF getCircleCIJobs(resp).state = "failed"
       THEN /\ jobsResults' = [jobsResults EXCEPT ![index] = Failed]
            /\ IF pc = "awaitJobs"
               THEN /\ pc' = "rejected"
                    /\ initError' = RequestFailure(resp)
                    /\ UNCHANGED unhandledRejections
               ELSE IF \E i \in 1..Len(jobsResults) :
                            jobsResults[i].state = "none"
               THEN \* Promise.all was never reached: nobody holds the promise
                    /\ unhandledRejections' =
                           Unhandled(unhandledRejections, RequestFailure(resp))
                    /\ pc' = IF ProcessEnds(RequestFailure(resp))
                             THEN "crashed" ELSE pc
                    /\ UNCHANGED initError
               ELSE UNCHANGED << pc, initError, unhandledRejections >>
            /\ UNCHANGED jobs
       ELSE LET results == StoreResult(jobsResults, index,
                                       getCircleCIJobs(resp).items)
            IN  /\ jobsResults' = results
                /\ IF pc = "awaitJobs"
                   THEN /\ jobs' = AssignJobs(jobs, results)
                        /\ pc' = IF AllArrived(results) THEN "resolved"
                                 ELSE pc
                   ELSE UNCHANGED << jobs, pc >>
                /\ UNCHANGED << initError, unhandledRejections >>
    /\ UNCHANGED << outside, fields, pipeline, packageAndReleaseWorkflow,
                    testsWorkflow, requests, unhandledRejectionsMode,
                    lookVars >>

\* ---------------------------------------------------------- #findUrlForJob
\* fragment occurs in str: str = before \o fragment \o after.
Contains(str, fragment) ==
    \E before \in 0..Len(str) :
        /\ before + Len(fragment) <= Len(str)
        /\ \A k \in 1..Len(fragment) : str[before + k] = fragment[k]

\* The entries of an artifact list whose path contains the fragment.
Candidates(artifacts, fragment) ==
    Cardinality({i \in 1..Len(artifacts) :
                     Contains(artifacts[i].path, fragment)})

\* #findUrlForJob(jobName, artifactPath) up to its await: the job is looked
\* for in this.jobs and its artifact list is asked for.  Reading .find of
\* an undefined this.jobs, or .job_number of a job that was not found,
\* throws before any request is made.
CallFindUrlForJob(jobName, artifactPath) ==
    /\ pc # "crashed"
    /\ lookup.pc = "idle"
    /\ lookups < MaxLookups
    /\ lookups' = lookups + 1
    /\ IF jobs = Undefined
       THEN /\ lookupResult' = Thrown(TypeErrorReading("find"), -1)
            /\ UNCHANGED << lookup, requests >>
       ELSE LET job == findJob(jobs.items, jobName)
            IN  IF job = Undefined
                THEN /\ lookupResult' =
                            Thrown(TypeErrorReading("job_number"), -1)
                     /\ UNCHANGED << lookup, requests >>
                ELSE /\ lookup' = [pc |-> "awaitArtifacts",
                                   jobName |-> jobName,
                                   artifactPath |-> artifactPath]
                     /\ lookupResult' = NoResult
                     /\ requests' = request(requests,
                            Request("artifacts", job.job_number,
                                    circleCIHeaders))
    /\ UNCHANGED << fields, initVars, unhandledRejectionsMode >>

\* The call made on the resolver by itself: nothing outside it changes.
FindUrlForJob(jobName, artifactPath) ==
    /\ CallFindUrlForJob(jobName, artifactPath)
    /\ UNCHANGED outside

\* The artifact list arrives: the first artifact whose path contains
\* artifactPath is looked for and its url returned.  Reading .url of an
\* artifact that was not found throws.  The call is over: its parameters
\* and locals are gone.
ArtifactsResponse(resp) ==
    /\ pc # "crashed"
    /\ lookup.pc = "awaitArtifacts"
    /\ lookup' = NoLookup
    /\ IF resp.status # "ok"
       THEN lookupResult' = Thrown(RequestFailure(resp), -1)
       ELSE LET artifact == findArtifact(resp.items, lookup.artifactPath)
                n == Candidates(resp.items, lookup.artifactPath)
            IN  lookupResult' = IF artifact = Undefined
                                THEN Thrown(TypeErrorReading("url"), n)
                                ELSE Returned(artifact.url, n)
    /\ UNCHANGED << outside, fields, initVars, requests, unhandledRejectionsMode,
                    lookups >>

\* -------------------------------------------------------- downloadArtifact
\* A download that fetches first and removes afterwards.
fetchThenRemove(artifactURL, destination) ==
    << Curl(artifactURL, destination), Rm(destination) >>

\* downloadArtifact(artifactURL, destination): the two exec calls it makes.
downloadArtifact(artifactURL, destination) ==
    << Rm(destination), Curl(artifactURL, destination) >>

\* What one exec does to the file system, and the exit code it returns
\* (exec is synchronous and, without the fatal option, does not throw).
\* rm -rf of a path that is not there succeeds; it can fail on one that is
\* (no permission on the parent).  curl -Lo cannot write to a directory;
\* it creates or truncates the output file when the first byte arrives.
exec(fs, command, rmSucceeds, curlOutcome, generation) ==
    LET d == command.destination
    IN  IF command.program = "rm"
        THEN IF rmSucceeds \/ fs[d].kind = "absent"
             THEN [fileSystem |-> [fs EXCEPT ![d] = Absent], code |-> 0]
             ELSE [fileSystem |-> fs, code |-> 1]
        ELSE IF fs[d].kind = "directory" \/ curlOutcome = "nothing"
        THEN [fileSystem |-> fs, code |-> 1]
        ELSE IF curlOutcome = "cut"
        THEN [fileSystem |->
                 [fs EXCEPT ![d] = File({Part(command.url, generation, FALSE)})],
              code |-> 1]
        ELSE [fileSystem |->
                 [fs EXCEPT ![d] = File({Part(command.url, generation, TRUE)})],
              code |-> 0]

\* One call of downloadArtifact: both commands run, one after the other,
\* whatever the first returned.
DownloadArtifact(artifactURL, destination, rmSucceeds, curlOutcome) ==
    /\ downloads < MaxDownloads
    /\ downloads' = downloads + 1
    /\ LET calls  == downloadArtifact(artifactURL, destination)
           first  == exec(fileSystem, calls[1], rmSucceeds, curlOutcome,
                          downloads + 1)
           second == exec(first.fileSystem, calls[2], rmSucceeds,
                          curlOutcome, downloads + 1)
       IN  /\ fileSystem' = second.fileSystem
           /\ commands' = commands \o << Executed(calls[1], first.code),
                                         Executed(calls[2], second.code) >>
    /\ UNCHANGED << device, script, test, moduleLevel, fields, initVars,
                    requests, unhandledRejectionsMode, lookVars >>

\* ------------------------------------------------------------ the wrappers
\* Paths and fragments of the wrappers are kept in pieces, cut where the
\* template literal of the APK wrapper is cut, so that a fragment occurs in
\* a path exactly when its pieces occur in it in a row.
HermesDebugJob       == "build_hermes_macos-Debug"
NpmPackageJob        == "build_and_publish_npm_package-2"
TestAndroidJob       == "test_android"

HermesDebugFragment  == << "hermes-ios-debug.tar.gz" >>
MavenLocalFragment   == << "maven-local.zip" >>
PackagedFragment     == << "react-native-1000.0.0-" >>
HermesAPKFragment(emulatorArch) ==
    << "rntester-apk/hermes/release/app-hermes-" >> \o emulatorArch
        \o << "-release.apk" >>
JSCAPKFragment ==
    << "rntester-apk/jsc/release/app-jsc-", "arm64-v8a", "-release.apk" >>

\* What `adb shell getprop ro.product.cpu.abi` prints for a device: the ABI
\* and a line end.
adb(abi) == << abi, "\n" >>

\* String.prototype.trim: white space removed at both ends.
RECURSIVE trim(_)
trim(str) ==
    LET WhiteSpace == {" ", "\n", "\t"}
    IN  IF str = <<>> THEN str
        ELSE IF Head(str) \in WhiteSpace THEN trim(Tail(str))
        ELSE IF str[Len(str)] \in WhiteSpace
        THEN trim(SubSeq(str, 1, Len(str) - 1))
        ELSE str

ArtifactURLHermesDebug ==
    FindUrlForJob(HermesDebugJob, HermesDebugFragment)

\* A Maven wrapper bound to the job of the APK wrappers.
ArtifactURLForMavenLocalOfTestAndroid ==
    FindUrlForJob(TestAndroidJob, MavenLocalFragment)

ArtifactURLForMavenLocal ==
    FindUrlForJob(NpmPackageJob, MavenLocalFragment)

ArtifactURLForPackagedReactNative ==
    FindUrlForJob(NpmPackageJob, PackagedFragment)

\* `const emulatorArch = exec('adb shell getprop ro.product.cpu.abi').trim()`
ArtifactURLForHermesRNTesterAPK ==
    LET emulatorArch == trim(adb(device))
    IN  FindUrlForJob(TestAndroidJob, HermesAPKFragment(emulatorArch))

\* The JSC wrapper asks no device: its fragment is a literal.
ArtifactURLForJSCRNTesterAPK ==
    FindUrlForJob(TestAndroidJob, JSCAPKFragment)

\* The jobs and artifacts the server holds for the wrappers, in the order
\* it lists them, and the lists it can answer with: any of them, up to a
\* length.
WrapperJobs ==
    << [name |-> HermesDebugJob, job_number |-> 7],
       [name |-> NpmPackageJob,  job_number |-> 8],
       [name |-> TestAndroidJob, job_number |-> 9] >>

WrapperArtifacts ==
    << [path |-> << "tmp/hermes/hermes-runtime-darwin/",
                    "hermes-ios-debug.tar.gz" >>,
        url  |-> "url-hermes-ios-debug"],
       [path |-> << "tmp/maven-local/", "maven-local.zip" >>,
        url  |-> "url-maven-local"],
       [path |-> << "build/", "react-native-1000.0.0-", "0a1b2c.tgz" >>,
        url  |-> "url-packaged"],
       [path |-> HermesAPKFragment(<< "arm64-v8a" >>),
        url  |-> "url-hermes-arm64"],
       [path |-> HermesAPKFragment(<< "x86_64" >>),
        url  |-> "url-hermes-x86_64"],
       [path |-> JSCAPKFragment, url |-> "url-jsc-arm64"],
       [path |-> << "rntester-apk/jsc/release/app-jsc-", "x86_64",
                    "-release.apk" >>,
        url  |-> "url-jsc-x86_64"] >>

SubLists(list, n) ==
    {[i \in 1..Cardinality(S) |->
         list[CHOOSE k \in S : Cardinality({j \in S : j < k}) = i - 1]] :
        S \in {T \in SUBSET (1..Len(list)) : Cardinality(T) <= n}}

WrapperResponses ==
    {[status |-> "ok", items |-> l] :
        l \in SubLists(WrapperArtifacts, MaxArtifacts)}
    \cup {[status |-> "error", items |-> <<>>],
          [status |-> "rejected", items |-> <<>>]}

\* ------------------------------------------------- main, test-e2e-local.js
\* "ReferenceError: <identifier> is not defined"
ReferenceErrorOf(identifier) ==
    [name |-> "ReferenceError", subject |-> identifier,
     detail |-> "is not defined"]

\* The bindings of the module scope of test-e2e-local.js, and those a
\* function body sees: its parameters and locals on top of the module's.
ModuleScope ==
    {"exec", "pushd", "popd", "pwd", "cd", "updateTemplatePackage", "yargs",
     "path", "maybeLaunchAndroidEmulator", "isPackagerRunning",
     "launchPackagerInSeparateWindow", "CircleCIArtifacts", "argv",
     "checkPackagerRunning", "testRNTesterIOS", "testRNTesterAndroid",
     "testRNTester", "downloadArtifactsFromCircleCI", "buildArtifactsLocally",
     "prepareArtifacts", "testRNTestProject", "setupCircleCIArtifacts",
     "main"}

\* `async function setupCircleCIArtifacts(circleciToken)`: one parameter,
\* the locals baseTmpPath and circleCIArtifacts.
SetupScope ==
    ModuleScope \cup {"circleciToken", "baseTmpPath", "circleCIArtifacts"}

MainScope ==
    ModuleScope \cup {"branchName", "onReleaseBranch", "circleCIArtifacts"}

\* isPackagerRunning(): exec returns what curl printed whatever curl's exit
\* code (shelljs exec does not throw without the fatal option), so the
\* catch clause, which returns 'not_running', is never entered.
isPackagerRunning(reply) ==
    IF reply.stdout = "packager-status:running"
    THEN "running" ELSE "unrecognized"

Kill == [program |-> "kill", flags |-> "", url |-> "", destination |-> ":8081"]

\* checkPackagerRunning(): the exec calls it makes after the status request.
checkPackagerRunning(reply) ==
    IF isPackagerRunning(reply) = "running"
    THEN << Executed(Kill, 0) >> ELSE << >>

\* main() up to its await of setupCircleCIArtifacts(argv.circleciToken),
\* whose body runs at once up to its own first await or return.  Main
\* first ends a running packager.
\* Without a token the setup returns null.  With one it constructs the
\* resolver and then evaluates the argument of initialize(branchName):
\* an identifier that is in no scope of the setup throws, the setup's
\* promise is rejected and initialize is not called.
Main(reply) ==
    /\ main.pc = "start"
    /\ IF argv.circleciToken = Undefined
       THEN /\ main' = [main EXCEPT
                         !.pc = "awaitSetup",
                         !.setup = SetupReturned(Null),
                         !.packager = reply,
                         !.isPackagerRunning = isPackagerRunning(reply)]
            /\ commands' = commands \o checkPackagerRunning(reply)
            /\ UNCHANGED << fields, pc, requests >>
       ELSE /\ circleCIToken' = [CircleToken |-> argv.circleciToken.value]
            /\ baseTmpPath' = "/tmp/react-native-tmp"
            /\ commands' = commands \o checkPackagerRunning(reply) \o
                               << Executed(Mkdir("/tmp/react-native-tmp"), 0) >>
            /\ UNCHANGED circleCIHeaders
            /\ IF "branchName" \in SetupScope
               THEN \* initialize(branchName) runs to its first await
                    /\ pc' = "awaitPipeline"
                    /\ requests' = request(requests,
                           Request("pipeline", trim(<< gitBranch, "\n" >>)[1],
                                   circleCIHeaders))
                    /\ main' = [main EXCEPT
                                 !.pc = "awaitSetup",
                                 !.setup.state = "pending",
                                 !.packager = reply,
                                 !.isPackagerRunning =
                                     isPackagerRunning(reply)]
               ELSE /\ pc' = "constructed"
                    /\ main' = [main EXCEPT
                                  !.pc = "awaitSetup",
                                  !.setup =
                                      SetupThrew(ReferenceErrorOf("branchName")),
                                  !.packager = reply,
                                  !.isPackagerRunning =
                                      isPackagerRunning(reply)]
                    /\ UNCHANGED requests
    /\ UNCHANGED << fileSystem, downloads, device, argv, gitBranch, jobs,
                    pipeline, packageAndReleaseWorkflow, testsWorkflow,
                    jobsResults, initError, unhandledRejections, arrivals,
                    unhandledRejectionsMode, lookVars, test, moduleLevel >>

\* The setup's promise has settled and main resumes: with the value it
\* calls testRNTester or testRNTestProject; a rejection ends main, which
\* nobody catches (`main();`).
MainResumes ==
    /\ main.pc = "awaitSetup"
    /\ main.setup.state \in {"fulfilled", "rejected"}
    /\ IF main.setup.state = "fulfilled"
       THEN main' = [main EXCEPT
                       !.pc = "testing",
                       !.circleCIArtifacts = main.setup.value,
                       !.test = IF argv.target = "RNTester"
                                THEN "testRNTester" ELSE "testRNTestProject"]
       ELSE main' = [main EXCEPT !.pc = "rejected",
                                 !.error = main.setup.error]
    /\ UNCHANGED << shell, device, argv, gitBranch, fields, initVars,
                    requests, unhandledRejectionsMode, lookVars, test,
                    moduleLevel >>

\* ------------------------------------- the test functions, test-e2e-local.js
\* Reading a property of the resolver object: an own property, assigned by
\* the constructor or by initialize, is found before a method of the class
\* (which lives on the prototype).  The constructor assigns
\* `this.baseTmpPath`, and the class declares a method `baseTmpPath()`.
OwnProperties == {"circleCIToken", "baseTmpPath", "jobs"}

PrototypeMethods ==
    {"initialize", "baseTmpPath", "artifactURLHermesDebug",
     "artifactURLForMavenLocal", "artifactURLForPackagedReactNative",
     "artifactURLForHermesRNTesterAPK", "artifactURLForJSCRNTesterAPK",
     "downloadArtifact"}

Data(name)   == [tag |-> "data", name |-> name]
Method(name) == [tag |-> "function", name |-> name]

GetProperty(name) ==
    IF name \in OwnProperties THEN Data(name)
    ELSE IF name \in PrototypeMethods THEN Method(name)
    ELSE Undefined

\* "TypeError: circleCIArtifacts.<callee> is not a function"
TypeErrorNotAFunction(callee) ==
    [name |-> "TypeError", subject |-> callee, detail |-> "is not a function"]

\* `circleCIArtifacts.baseTmpPath()`: the property is read and its value is
\* called; the method's body is `return this.baseTmpPath;`.
CallBaseTmpPath ==
    LET callee == GetProperty("baseTmpPath")
    IN  IF callee.tag = "function"
        THEN PathReturned(baseTmpPath)
        ELSE CallThrew(TypeErrorNotAFunction("baseTmpPath"))

\* path.join of the one temporary directory and a file name.
join(dir, file) ==
    CASE file = "hermes-ios-debug.tar.gz" ->
             "/tmp/react-native-tmp/hermes-ios-debug.tar.gz"
      [] file = "rntester.apk" -> "/tmp/react-native-tmp/rntester.apk"
      [] file = "maven-local.zip" -> "/tmp/react-native-tmp/maven-local.zip"

\* A promise that is interpolated into a command line reads
\* "[object Promise]"; a string reads as itself.
Promise == [tag |-> "promise"]
Interpolate(value) ==
    IF value.tag = "promise" THEN "[object Promise]" ELSE value.value

\* A step of a test: a command line given to exec, with the one value
\* interpolated into it that matters here.  updateTemplatePackage is no
\* exec call; it is kept in the same log because it writes package.json.
\* The test functions ignore every exit code.
Step(program, value) ==
    [program |-> program, flags |-> "", url |-> "", destination |-> value]

Steps(steps) == [i \in 1..Len(steps) |-> Executed(steps[i], 0)]

\* testRNTestProject after its call of prepareArtifacts.
ProjectSteps(mavenLocalPath, hermesPath) ==
    Steps(<< Step("updateTemplatePackage", ""),
             Step("npm pack", ""),
             Step("cli.js init", ""),
             Step("yarn install", ""),
             Step("echo REACT_NATIVE_MAVEN_LOCAL_REPO", mavenLocalPath),
             Step("bundle install", ""),
             Step("pod install", Interpolate(hermesPath)),
             Step(IF argv.platform = "iOS" THEN "yarn ios"
                  ELSE "yarn android", "") >>)

LaunchPackager == Step("osascript", "yarn start")

\* The first of the identifiers, in the order a body evaluates them, that
\* is in no scope of the body: evaluating it throws.
RECURSIVE FirstUnbound(_, _)
FirstUnbound(identifiers, scope) ==
    IF identifiers = <<>> THEN NoError
    ELSE IF Head(identifiers) \in scope
    THEN FirstUnbound(Tail(identifiers), scope)
    ELSE ReferenceErrorOf(Head(identifiers))

\* The scope of the body of a test function: one parameter and the locals.
TestScope ==
    ModuleScope \cup {"circleCIArtifacts", "hermesURL", "hermesPath",
                      "downloadPath", "rntesterAPKURL"}

BuildScope ==
    ModuleScope \cup {"releaseVersion", "buildType", "reactNativePackagePath",
                      "exitCode", "jsiFolder", "hermesCoreSourceFolder",
                      "buildTypeiOSArtifacts", "localMavenPath"}

\* What `adb devices | grep -v emulator` and `emulator -list-avds` print,
\* line by line.
AdbDevices ==
    { << "List of devices attached" >>,
      << "List of devices attached", "R58M42ABCDE\tdevice" >> }
Avds == { << >>, << "Pixel_5" >>, << "Nexus_6", "Pixel_5" >> }

\* `.stdout.trim().split('\n').slice(1)` has an entry.
hasConnectedDevice(adbDevices) == Len(Tail(adbDevices)) > 0

\* A function is an object, and an object is truthy.
Truthy(value) == value.tag \in {"function", "object"}

\* tryLaunchEmulator: the first listed emulator is launched (spawn returns
\* without throwing), or there is none.
tryLaunchEmulator(avds) ==
    IF Len(avds) > 0
    THEN [success |-> TRUE,  launched |-> avds[1], error |-> ""]
    ELSE [success |-> FALSE, launched |-> "",
          error |-> "No emulators found"]

\* maybeLaunchAndroidEmulator: `if (hasConnectedDevice)` tests the function
\* itself, it does not call it.
maybeLaunchAndroidEmulator(adbDevices, avds) ==
    IF Truthy(Method("hasConnectedDevice"))
    THEN [called |-> TRUE, connected |-> hasConnectedDevice(adbDevices),
          listed |-> avds, launched |-> ""]
    ELSE [called |-> TRUE, connected |-> hasConnectedDevice(adbDevices),
          listed |-> avds, launched |-> tryLaunchEmulator(avds).launched]

\* One call of downloadArtifact made by a test: what it leaves behind.
Download(artifactURL, destination, rmSucceeds, curlOutcome) ==
    LET both   == downloadArtifact(artifactURL, destination)
        first  == exec(fileSystem, both[1], rmSucceeds, curlOutcome,
                       downloads + 1)
        second == exec(first.fileSystem, both[2], rmSucceeds, curlOutcome,
                       downloads + 1)
    IN  [fileSystem |-> second.fileSystem,
         commands |-> << Executed(both[1], first.code),
                         Executed(both[2], second.code) >>]

\* The test function is over: its promise is rejected with an error.
Rejects(name, error, call) ==
    test' = [test EXCEPT !.name = name, !.pc = "rejected", !.error = error,
                         !.baseTmpPath = call]

\* testRNTester(circleCIArtifacts) up to the first await of the function it
\* calls, or to its end.
\*  iOS, Hermes and a resolver: artifactURLHermesDebug() is awaited.
\*  iOS otherwise: the command line interpolates onReleaseBranch, a local
\*   of main.
\*  Android: the emulator, the packager, then with a resolver the download
\*   path is computed before the APK lookup is awaited.
TestRNTester(adbDevices, avds) ==
    /\ test.pc = "none"
    /\ argv.target = "RNTester"
    /\ IF argv.platform = "iOS"
       THEN IF argv.hermes /\ test.circleCIArtifacts # Null
            THEN /\ CallFindUrlForJob(HermesDebugJob, HermesDebugFragment)
                 /\ test' = IF lookupResult'.kind = "throw"
                            THEN [test EXCEPT !.name = "testRNTesterIOS",
                                              !.pc = "rejected",
                                              !.error = lookupResult'.error]
                            ELSE [test EXCEPT !.name = "testRNTesterIOS",
                                              !.pc = "awaitURL"]
                 /\ UNCHANGED << shell, unhandledRejections >>
            ELSE LET error == FirstUnbound(<< "argv", "onReleaseBranch" >>,
                                           TestScope)
                 IN  /\ IF error # NoError
                        THEN /\ Rejects("testRNTesterIOS", error, NotCalled)
                             /\ UNCHANGED commands
                        ELSE /\ test' = [test EXCEPT
                                           !.name = "testRNTesterIOS",
                                           !.pc = "resolved"]
                             /\ commands' = commands \o
                                    Steps(<< Step("pod install", ""),
                                             LaunchPackager,
                                             Step("run-ios", "") >>)
                     /\ UNCHANGED << fileSystem, downloads, fields, initVars,
                                     requests, unhandledRejectionsMode,
                                     lookVars >>
       ELSE LET emulator == maybeLaunchAndroidEmulator(adbDevices, avds)
                name == "testRNTesterAndroid"
            IN  IF test.circleCIArtifacts # Null
                THEN LET call == CallBaseTmpPath
                     IN  /\ commands' = Append(commands,
                                               Executed(LaunchPackager, 0))
                         /\ IF call.kind = "throw"
                            THEN /\ test' = [test EXCEPT
                                               !.name = name,
                                               !.pc = "rejected",
                                               !.error = call.error,
                                               !.baseTmpPath = call,
                                               !.emulator = emulator]
                                 /\ UNCHANGED << fields, initVars, requests,
                                                 unhandledRejectionsMode,
                                                 lookVars >>
                            ELSE /\ IF argv.hermes
                                    THEN CallFindUrlForJob(TestAndroidJob,
                                             HermesAPKFragment(
                                                 trim(adb(device))))
                                    ELSE CallFindUrlForJob(TestAndroidJob,
                                                           JSCAPKFragment)
                                 /\ test' =
                                      IF lookupResult'.kind = "throw"
                                      THEN [test EXCEPT
                                              !.name = name,
                                              !.pc = "rejected",
                                              !.error = lookupResult'.error,
                                              !.baseTmpPath = call,
                                              !.emulator = emulator]
                                      ELSE [test EXCEPT
                                              !.name = name,
                                              !.pc = "awaitURL",
                                              !.baseTmpPath = call,
                                              !.emulator = emulator]
                         /\ UNCHANGED << fileSystem, downloads >>
                ELSE /\ test' = [test EXCEPT !.name = name,
                                             !.pc = "resolved",
                                             !.emulator = emulator]
                     /\ commands' = commands \o
                            Steps(<< LaunchPackager,
                                     Step("gradlew", ""),
                                     Step("adb shell am start", ""),
                                     Step("adb reverse", "") >>)
                     /\ UNCHANGED << fileSystem, downloads, fields, initVars,
                                     requests, unhandledRejectionsMode,
                                     lookVars >>
    /\ UNCHANGED << device, script, moduleLevel >>

\* The lookup a test function awaits has settled and the function resumes.
\* A rejected lookup ends it.  On iOS the Hermes path is computed next,
\* with baseTmpPath(), then Hermes is downloaded and the pods installed
\* with it; on Android the APK is downloaded and installed.
TestResumes(rmSucceeds, curlOutcome) ==
    /\ test.pc = "awaitURL"
    /\ lookup.pc = "idle"
    /\ lookupResult.kind # "none"
    /\ IF lookupResult.kind = "throw"
       THEN /\ Rejects(test.name, lookupResult.error, test.baseTmpPath)
            /\ UNCHANGED shell
       ELSE IF test.name = "testRNTesterIOS"
       THEN LET call == CallBaseTmpPath
            IN  IF call.kind = "throw"
                THEN /\ Rejects(test.name, call.error, call)
                     /\ UNCHANGED shell
                ELSE LET hermesPath ==
                             join(call.value, "hermes-ios-debug.tar.gz")
                         done == Download(lookupResult.url, hermesPath,
                                          rmSucceeds, curlOutcome)
                     IN  /\ fileSystem' = done.fileSystem
                         /\ downloads' = downloads + 1
                         /\ commands' = commands \o done.commands \o
                                Steps(<< Step("pod install", hermesPath),
                                         LaunchPackager,
                                         Step("run-ios", "") >>)
                         /\ test' = [test EXCEPT !.pc = "resolved",
                                                 !.baseTmpPath = call]
       ELSE LET downloadPath == join(test.baseTmpPath.value, "rntester.apk")
                done == Download(lookupResult.url, downloadPath,
                                 rmSucceeds, curlOutcome)
            IN  /\ fileSystem' = done.fileSystem
                /\ downloads' = downloads + 1
                /\ commands' = commands \o done.commands \o
                       Steps(<< Step("adb install", downloadPath),
                                Step("adb shell am start", ""),
                                Step("adb reverse", "") >>)
                /\ test' = [test EXCEPT !.pc = "resolved"]
    /\ UNCHANGED << device, script, moduleLevel, fields, initVars, requests,
                    unhandledRejectionsMode, lookVars >>

\* testRNTestProject(circleCIArtifacts), to its end: it awaits nothing.
\* With a resolver the Maven path is computed with baseTmpPath().  Then
\* prepareArtifacts is called and the promise it returns is kept as
\* hermesPath, without await: prepareArtifacts runs to its own first await
\* (the Maven lookup) or, without a resolver, through
\* buildArtifactsLocally, whose throw rejects a promise that nobody
\* awaits.  The steps that follow run at once, in the same tick.
TestRNTestProject(exitCode) ==
    /\ test.pc = "none"
    /\ argv.target = "RNTestProject"
    /\ LET name == "testRNTestProject"
       IN  IF test.circleCIArtifacts # Null
           THEN LET call == CallBaseTmpPath
                IN  IF call.kind = "throw"
                    THEN /\ Rejects(name, call.error, call)
                         /\ UNCHANGED << commands, fields, initVars, requests,
                                         unhandledRejectionsMode, lookVars >>
                    ELSE /\ CallFindUrlForJob(NpmPackageJob,
                                              MavenLocalFragment)
                         /\ commands' = commands \o
                                ProjectSteps(
                                    join(call.value, "maven-local.zip"),
                                    Promise)
                         /\ test' = [test EXCEPT !.name = name,
                                                 !.pc = "resolved",
                                                 !.baseTmpPath = call]
                         /\ UNCHANGED unhandledRejections
           ELSE LET setVersion == Executed(Step("set-rn-version", ""),
                                           exitCode)
                    error == FirstUnbound(<< "generateAndroidArtifacts",
                                             "fs", "cp",
                                             "generateiOSArtifacts" >>,
                                          BuildScope)
                IN  /\ IF exitCode # 0
                       THEN \* process.exit(exitCode)
                            /\ test' = [test EXCEPT !.name = name,
                                                    !.pc = "exited"]
                            /\ commands' = Append(commands, setVersion)
                            /\ UNCHANGED unhandledRejections
                       ELSE /\ unhandledRejections' =
                                   Unhandled(unhandledRejections, error)
                            /\ commands' = commands \o << setVersion >> \o
                                   ProjectSteps("/private/tmp/maven-local",
                                                Promise)
                            /\ test' = [test EXCEPT !.name = name,
                                                    !.pc = "resolved"]
                    /\ UNCHANGED << fields, pc, pipeline,
                                    packageAndReleaseWorkflow, testsWorkflow,
                                    jobsResults, initError, jobs, arrivals,
                                    requests, unhandledRejectionsMode,
                                    lookVars >>
    /\ UNCHANGED << fileSystem, downloads, device, script, moduleLevel >>

\* ------------------------------------------- the module-level resolver
\* The version of testing-utils.js whose functions share three `let`s of
\* the module: circleCIHeaders, jobs and baseTemporaryPath.  A call of
\* initialize keeps its parameters and locals to itself.
InitializeArguments ==
    { << "token-A", "main" >>, << "token-B", "0.72-stable" >> }

NewCall(token, branchName, history) ==
    [circleCIToken |-> token, branchName |-> branchName,
     pc |-> "awaitPipeline", pipeline |-> Undefined,
     packageAndReleaseWorkflow |-> Undefined, testsWorkflow |-> Undefined,
     jobsResults |-> << NotIssued, NotIssued >>, error |-> NoError,
     requests |-> history]

\* What the server holds for the two branches: one pipeline each, its two
\* workflows and their jobs.
PipelineOf(branchName) ==
    IF branchName = "main" THEN [id |-> "p1", number |-> 42]
    ELSE [id |-> "p2", number |-> 41]

WorkflowsOf(pipelineId, testsStatus) ==
    IF pipelineId = "p1"
    THEN << [id |-> "w1", name |-> ReleaseWorkflowName,
             status |-> "success"],
            [id |-> "w2", name |-> TestsWorkflowName,
             status |-> testsStatus] >>
    ELSE << [id |-> "w4", name |-> ReleaseWorkflowName,
             status |-> "success"],
            [id |-> "w5", name |-> TestsWorkflowName,
             status |-> testsStatus] >>

JobsOf(workflowId) ==
    CASE workflowId = "w1" -> << [name |-> HermesDebugJob, job_number |-> 7],
                                 [name |-> NpmPackageJob, job_number |-> 8] >>
      [] workflowId = "w2" -> << [name |-> TestAndroidJob, job_number |-> 9] >>
      [] workflowId = "w4" -> << [name |-> HermesDebugJob, job_number |-> 17],
                                 [name |-> NpmPackageJob, job_number |-> 18] >>
      [] workflowId = "w5" -> << [name |-> TestAndroidJob, job_number |-> 19] >>

Failure == [status |-> "error", items |-> << >>]
Ok(items) == [status |-> "ok", items |-> items]

\* The runtime has not ended the process because of an unhandled rejection.
Alive == \A c \in DOMAIN initializeCalls : initializeCalls[c].pc # "crashed"

Update(c, call) == initializeCalls' = [initializeCalls EXCEPT ![c] = call]

\* initialize(circleCIToken, baseTempPath, branchName) up to its first
\* await (the first parameter is `token` here): two `let`s are assigned, the directory is made and
\* _getLastCircleCIPipelineID builds its options, with the headers the
\* module holds, and calls request.
ModuleInitialize(token, baseTempPath, branchName) ==
    /\ Alive
    /\ Len(initializeCalls) < MaxCalls
    /\ testingUtils' =
           [testingUtils EXCEPT
              !.circleCIHeaders = [CircleToken |-> token],
              !.baseTemporaryPath = baseTempPath]
    /\ commands' = Append(commands, Executed(Mkdir(baseTempPath), 0))
    /\ initializeCalls' =
           Append(initializeCalls,
                  NewCall(token, branchName,
                          request(<< >>,
                                  Request("pipeline", branchName,
                                          testingUtils'.circleCIHeaders))))
    /\ UNCHANGED << fileSystem, downloads, device, script, test, fields,
                    initVars, requests, unhandledRejectionsMode, lookVars >>

\* The pipeline list of a call arrives: items[0] is taken and the release
\* workflow is asked for, with the headers the module holds by then.
ModulePipelineResponse(c) ==
    /\ Alive
    /\ c \in DOMAIN initializeCalls
    /\ initializeCalls[c].pc = "awaitPipeline"
    /\ LET call == initializeCalls[c]
       IN  \E resp \in {Ok(<< PipelineOf(call.branchName) >>), Ok(<< >>),
                        Failure} :
             IF resp.status # "ok"
             THEN Update(c, [call EXCEPT !.pc = "rejected",
                                         !.error = RequestFailure(resp)])
             ELSE LET last == getLastCircleCIPipelineID(resp.items)
                  IN  IF last = Undefined
                      THEN Update(c, [call EXCEPT
                                        !.pc = "rejected",
                                        !.error = TypeErrorReading("id")])
                      ELSE Update(c, [call EXCEPT
                                        !.pc = "awaitReleaseWorkflow",
                                        !.pipeline = last,
                                        !.requests =
                                            request(call.requests,
                                              Request("workflow", last.id,
                                                testingUtils.circleCIHeaders))])
    /\ UNCHANGED << testingUtils, shell, device, script, test, fields,
                    initVars, requests, unhandledRejectionsMode, lookVars >>

\* The first workflow list of a call arrives: the release workflow is
\* looked for, its check is started and not awaited, and the tests
\* workflow is asked for.
ModuleReleaseWorkflowResponse(c) ==
    /\ Alive
    /\ c \in DOMAIN initializeCalls
    /\ initializeCalls[c].pc = "awaitReleaseWorkflow"
    /\ LET call == initializeCalls[c]
       IN  \E resp \in {Ok(WorkflowsOf(call.pipeline.id, "success")),
                        Failure} :
             IF resp.status # "ok"
             THEN /\ Update(c, [call EXCEPT !.pc = "rejected",
                                            !.error = RequestFailure(resp)])
                  /\ UNCHANGED unhandledRejections
             ELSE LET workflow ==
                          getSpecificWorkflow(resp.items, ReleaseWorkflowName)
                      check == throwIfPendingOrUnsuccessfulWorkflow(workflow)
                  IN  /\ unhandledRejections' =
                             Unhandled(unhandledRejections, check)
                      /\ Update(c, [call EXCEPT
                             !.pc = IF ProcessEnds(check) THEN "crashed"
                                    ELSE "awaitTestsWorkflow",
                             !.packageAndReleaseWorkflow = workflow,
                             !.requests =
                                 request(call.requests,
                                   Request("workflow", call.pipeline.id,
                                           testingUtils.circleCIHeaders))])
    /\ UNCHANGED << testingUtils, shell, device, script, test, fields, pc,
                    pipeline, packageAndReleaseWorkflow, testsWorkflow,
                    jobsResults, initError, jobs, arrivals, requests,
                    unhandledRejectionsMode, lookVars >>

\* The second workflow list of a call arrives: the tests workflow is looked
\* for, its check is started and not awaited, and the two job lists are
\* asked for before Promise.all is awaited.  Reading .id of a workflow that
\* was not found throws inside initialize.
ModuleTestsWorkflowResponse(c) ==
    /\ Alive
    /\ c \in DOMAIN initializeCalls
    /\ initializeCalls[c].pc = "awaitTestsWorkflow"
    /\ LET call == initializeCalls[c]
       IN  \E resp \in {Ok(WorkflowsOf(call.pipeline.id, "success")),
                        Ok(WorkflowsOf(call.pipeline.id, "failed")),
                        Failure} :
             IF resp.status # "ok"
             THEN /\ Update(c, [call EXCEPT !.pc = "rejected",
                                            !.error = RequestFailure(resp)])
                  /\ UNCHANGED unhandledRejections
             ELSE LET workflow ==
                          getSpecificWorkflow(resp.items, TestsWorkflowName)
                      check == throwIfPendingOrUnsuccessfulWorkflow(workflow)
                      headers == testingUtils.circleCIHeaders
                      first == Request("job",
                                       call.packageAndReleaseWorkflow.id,
                                       headers)
                      second == Request("job", workflow.id, headers)
                  IN  /\ unhandledRejections' =
                             Unhandled(unhandledRejections, check)
                      /\ IF call.packageAndReleaseWorkflow = Undefined
                         THEN Update(c, [call EXCEPT
                                !.pc = IF ProcessEnds(check) THEN "crashed"
                                       ELSE "rejected",
                                !.testsWorkflow = workflow,
                                !.error = TypeErrorReading("id")])
                         ELSE IF workflow = Undefined
                         THEN Update(c, [call EXCEPT
                                !.pc = IF ProcessEnds(check) THEN "crashed"
                                       ELSE "rejected",
                                !.testsWorkflow = workflow,
                                !.error = TypeErrorReading("id"),
                                !.jobsResults = << Pending, NotIssued >>,
                                !.requests = request(call.requests, first)])
                         ELSE Update(c, [call EXCEPT
                                !.pc = IF ProcessEnds(check) THEN "crashed"
                                       ELSE "awaitJobs",
                                !.testsWorkflow = workflow,
                                !.jobsResults = << Pending, Pending >>,
                                !.requests =
                                    request(request(call.requests, first),
                                            second)])
    /\ UNCHANGED << testingUtils, shell, device, script, test, fields, pc,
                    pipeline, packageAndReleaseWorkflow, testsWorkflow,
                    jobsResults, initError, jobs, arrivals, requests,
                    unhandledRejectionsMode, lookVars >>

\* One of the two job lists of a call arrives.  Promise.all rejects with
\* the first failure and fulfils when both lists are there; initialize then
\* flattens them into the module's `jobs`.
ModuleJobsResponse(c, index) ==
    /\ Alive
    /\ c \in DOMAIN initializeCalls
    /\ initializeCalls[c].pc \in {"awaitJobs", "rejected"}
    /\ initializeCalls[c].jobsResults[index].state = "pending"
    /\ LET call == initializeCalls[c]
           workflowId == IF index = 1 THEN call.packageAndReleaseWorkflow.id
                         ELSE call.testsWorkflow.id
       IN  \E resp \in {Ok(JobsOf(workflowId)), Failure} :
             IF getCircleCIJobs(resp).state = "failed"
             THEN /\ UNCHANGED testingUtils
                  /\ IF call.pc = "awaitJobs"
                     THEN /\ Update(c, [call EXCEPT
                                 !.pc = "rejected",
                                 !.error = RequestFailure(resp),
                                 !.jobsResults[index] = Failed])
                          /\ UNCHANGED unhandledRejections
                     ELSE IF \E i \in 1..2 : call.jobsResults[i].state = "none"
                     THEN /\ unhandledRejections' =
                                 Unhandled(unhandledRejections,
                                           RequestFailure(resp))
                          /\ Update(c, [call EXCEPT
                                 !.pc = IF ProcessEnds(RequestFailure(resp))
                                        THEN "crashed" ELSE call.pc,
                                 !.jobsResults[index] = Failed])
                     ELSE /\ Update(c, [call EXCEPT
                                           !.jobsResults[index] = Failed])
                          /\ UNCHANGED unhandledRejections
             ELSE LET results == StoreResult(call.jobsResults, index,
                                             getCircleCIJobs(resp).items)
                  IN  /\ UNCHANGED unhandledRejections
                      /\ IF call.pc = "awaitJobs" /\ AllArrived(results)
                         THEN /\ testingUtils' =
                                     [testingUtils EXCEPT
                                        !.jobs = Array(flatMap(results))]
                              /\ Update(c, [call EXCEPT
                                               !.pc = "resolved",
                                               !.jobsResults = results])
                         ELSE /\ UNCHANGED testingUtils
                              /\ Update(c, [call EXCEPT
                                               !.jobsResults = results])
    /\ UNCHANGED << shell, device, script, test, fields, pc, pipeline,
                    packageAndReleaseWorkflow, testsWorkflow, jobsResults,
                    initError, jobs, arrivals, requests,
                    unhandledRejectionsMode, lookVars >>

\* _findUrlForJob(jobName, artifactPath) up to its await: the job is looked
\* for in the module's `jobs` and its artifact list is asked for.
ModuleFindUrlForJob(jobName, artifactPath) ==
    /\ Alive
    /\ lookup.pc = "idle"
    /\ lookups < MaxLookups
    /\ lookups' = lookups + 1
    /\ IF testingUtils.jobs = Undefined
       THEN /\ lookupResult' = Thrown(TypeErrorReading("find"), -1)
            /\ UNCHANGED << lookup, requests >>
       ELSE LET job == findJob(testingUtils.jobs.items, jobName)
            IN  IF job = Undefined
                THEN /\ lookupResult' =
                            Thrown(TypeErrorReading("job_number"), -1)
                     /\ UNCHANGED << lookup, requests >>
                ELSE /\ lookup' = [pc |-> "awaitArtifacts",
                                   jobName |-> jobName,
                                   artifactPath |-> artifactPath]
                     /\ lookupResult' = NoResult
                     /\ requests' = request(requests,
                            Request("artifacts", job.job_number,
                                    testingUtils.circleCIHeaders))
    /\ UNCHANGED << outside, fields, initVars, unhandledRejectionsMode >>

\* ------------------------------------------------------- the specification
Next ==
    \/ \E branchName \in Branches : Initialize(branchName)
    \/ \E resp \in Responses(Pipelines, MaxPipelines) : PipelineResponse(resp)
    \/ \E resp \in Responses(Workflows, MaxWorkflows) :
           ReleaseWorkflowResponse(resp)
    \/ \E resp \in Responses(Workflows, MaxWorkflows) :
           TestsWorkflowResponse(resp)
    \/ \E index \in 1..2, resp \in JobResponses :
           JobsResponse(index, resp)
    \/ \E jobName \in JobNames, artifactPath \in Fragments :
           FindUrlForJob(jobName, artifactPath)
    \/ \E resp \in Responses(Artifacts, MaxArtifacts) : ArtifactsResponse(resp)

Spec == Init /\ [][Next]_vars

\* A resolver whose initialize has completed: the two workflows were found
\* successful and the two job lists arrived.
InitializedResolver ==
    /\ \E t \in Tokens : circleCIToken = [CircleToken |-> t]
    /\ circleCIHeaders = Undefined
    /\ baseTmpPath \in TmpPaths
    /\ pc = "resolved"
    /\ pipeline = [id |-> "p1", number |-> 42]
    /\ packageAndReleaseWorkflow =
           [id |-> "w1", name |-> ReleaseWorkflowName, status |-> "success"]
    /\ testsWorkflow =
           [id |-> "w2", name |-> TestsWorkflowName, status |-> "success"]
    /\ \E release, tests \in SubLists(WrapperJobs, MaxJobs) :
           /\ jobsResults = << Arrived(release), Arrived(tests) >>
           /\ jobs = AssignJobs(Undefined, jobsResults)
           /\ arrivals =
                  << [index |-> 1,
                      response |-> [status |-> "ok", items |-> release]],
                     [index |-> 2,
                      response |-> [status |-> "ok", items |-> tests]] >>
    /\ initError = NoError
    /\ requests =
           << Request("pipeline", "main", circleCIHeaders),
              Request("workflow", "p1", circleCIHeaders),
              Request("workflow", "p1", circleCIHeaders),
              Request("job", "w1", circleCIHeaders),
              Request("job", "w2", circleCIHeaders) >>
    /\ unhandledRejections = <<>>
    /\ unhandledRejectionsMode \in {"warn", "throw"}
    /\ lookup = NoLookup
    /\ lookupResult = NoResult
    /\ lookups = 0
    /\ commands = <<Executed(Mkdir(baseTmpPath), 0)>>

WrappersInit ==
    /\ InitializedResolver
    /\ fileSystem = [d \in Destinations |-> Absent]
    /\ downloads = 0
    /\ device \in ABIs
    /\ argv = [circleciToken |-> Undefined, target |-> "RNTester",
               platform |-> "iOS", hermes |-> FALSE]
    /\ gitBranch = "main"
    /\ main = NotRunning
    /\ test = NoTest
    /\ testingUtils = NotInitialized
    /\ initializeCalls = NoCalls

WrappersNext ==
    \/ ArtifactURLHermesDebug
    \/ ArtifactURLForMavenLocal
    \/ ArtifactURLForPackagedReactNative
    \/ ArtifactURLForHermesRNTesterAPK
    \/ ArtifactURLForJSCRNTesterAPK
    \/ \E resp \in WrapperResponses : ArtifactsResponse(resp)

WrappersSpec == WrappersInit /\ [][WrappersNext]_vars

\* The script started from the command line: no resolver exists yet.
MainInit ==
    /\ argv \in Argvs
    /\ gitBranch \in GitBranches
    /\ main = Started
    /\ circleCIToken = Undefined
    /\ circleCIHeaders = Undefined
    /\ baseTmpPath = Undefined
    /\ jobs = Undefined
    /\ pc = "none"
    /\ pipeline = Undefined
    /\ packageAndReleaseWorkflow = Undefined
    /\ testsWorkflow = Undefined
    /\ jobsResults = <<NotIssued, NotIssued>>
    /\ initError = NoError
    /\ requests = <<>>
    /\ unhandledRejections = <<>>
    /\ unhandledRejectionsMode \in {"warn", "throw"}
    /\ lookup = NoLookup
    /\ lookupResult = NoResult
    /\ lookups = 0
    /\ arrivals = <<>>
    /\ commands = <<>>
    /\ fileSystem = [d \in Destinations |-> Absent]
    /\ downloads = 0
    /\ device = NoDevice
    /\ test = NoTest
    /\ testingUtils = NotInitialized
    /\ initializeCalls = NoCalls

MainNext == (\E reply \in PackagerReplies : Main(reply)) \/ MainResumes

MainSpec == MainInit /\ [][MainNext]_vars

\* downloadArtifact on a constructed resolver, with anything left at the
\* destinations by an earlier run.
DownloadInit ==
    /\ Constructed
    /\ fileSystem \in [Destinations -> LeftoverContents]
    /\ downloads = 0
    /\ device = NoDevice
    /\ argv = [circleciToken |-> Undefined, target |-> "RNTester",
               platform |-> "iOS", hermes |-> FALSE]
    /\ gitBranch = "main"
    /\ main = NotRunning
    /\ test = NoTest
    /\ testingUtils = NotInitialized
    /\ initializeCalls = NoCalls

DownloadNext ==
    \E artifactURL \in DownloadUrls, destination \in Destinations,
       rmSucceeds \in BOOLEAN, curlOutcome \in CurlOutcomes :
        DownloadArtifact(artifactURL, destination, rmSucceeds, curlOutcome)

DownloadSpec == DownloadInit /\ [][DownloadNext]_vars

\* The test functions called as main calls them: with the resolver, whose
\* initialize has completed, or with null.
TestsInit ==
    /\ InitializedResolver
    /\ fileSystem = [d \in Destinations |-> Absent]
    /\ downloads = 0
    /\ device \in ABIs
    /\ argv \in Argvs
    /\ gitBranch = "main"
    /\ main = NotRunning
    /\ test \in {[NoTest EXCEPT !.circleCIArtifacts = r] :
                     r \in {Null, Resolver}}
    /\ testingUtils = NotInitialized
    /\ initializeCalls = NoCalls

TestsNext ==
    \/ \E adbDevices \in AdbDevices, avds \in Avds :
           TestRNTester(adbDevices, avds)
    \/ \E rmSucceeds \in BOOLEAN, curlOutcome \in CurlOutcomes :
           TestResumes(rmSucceeds, curlOutcome)
    \/ \E exitCode \in {0, 1} : TestRNTestProject(exitCode)
    \/ \E resp \in WrapperResponses : ArtifactsResponse(resp)

TestsSpec == TestsInit /\ [][TestsNext]_vars

\* The module-level resolver, just loaded: nothing has been called.
ModuleInit ==
    /\ testingUtils = NotInitialized
    /\ initializeCalls = NoCalls
    /\ circleCIToken = Undefined
    /\ circleCIHeaders = Undefined
    /\ baseTmpPath = Undefined
    /\ jobs = Undefined
    /\ pc = "none"
    /\ pipeline = Undefined
    /\ packageAndReleaseWorkflow = Undefined
    /\ testsWorkflow = Undefined
    /\ jobsResults = <<NotIssued, NotIssued>>
    /\ initError = NoError
    /\ requests = <<>>
    /\ unhandledRejections = <<>>
    /\ unhandledRejectionsMode \in {"warn", "throw"}
    /\ lookup = NoLookup
    /\ lookupResult = NoResult
    /\ lookups = 0
    /\ arrivals = <<>>
    /\ commands = <<>>
    /\ fileSystem = [d \in Destinations |-> Absent]
    /\ downloads = 0
    /\ device = NoDevice
    /\ argv = [circleciToken |-> Undefined, target |-> "RNTester",
               platform |-> "iOS", hermes |-> FALSE]
    /\ gitBranch = "main"
    /\ main = NotRunning
    /\ test = NoTest

ModuleNext ==
    \/ \E arguments \in InitializeArguments, baseTempPath \in TmpPaths :
           ModuleInitialize(arguments[1], baseTempPath, arguments[2])
    \/ \E c \in 1..MaxCalls : ModulePipelineResponse(c)
    \/ \E c \in 1..MaxCalls : ModuleReleaseWorkflowResponse(c)
    \/ \E c \in 1..MaxCalls : ModuleTestsWorkflowResponse(c)
    \/ \E c \in 1..MaxCalls, index \in 1..2 :
           ModuleJobsResponse(c, index)
    \/ ModuleFindUrlForJob(HermesDebugJob, HermesDebugFragment)
    \/ \E resp \in {Ok(SubSeq(WrapperArtifacts, 1, 1)), Failure} :
           ArtifactsResponse(resp)

ModuleSpec == ModuleInit /\ [][ModuleNext]_vars

\* ================================================================== claims
\* What the claims speak of.
JobListRequests == {i \in 1..Len(requests) : requests[i].endpoint = "job"}
WorkflowListRequests ==
    {i \in 1..Len(requests) : requests[i].endpoint = "workflow"}

Found(workflow)        == workflow # Undefined
Unsuccessful(workflow) == Found(workflow) /\ workflow.status # "success"

\* The header the constructor builds from its token.
AuthenticationHeader == circleCIToken

\* The job list the server sent for the workflow at `index` of jobsPromises.
RECURSIVE SentFor(_, _)
SentFor(index, history) ==
    IF history = <<>> THEN <<>>
    ELSE IF Head(history).index = index THEN Head(history).response.items
    ELSE SentFor(index, Tail(history))

JobAbsent(jobName) ==
    /\ jobs # Undefined
    /\ \A i \in 1..Len(jobs.items) : jobs.items[i].name # jobName

\* initialize has failed with `error`: its promise rejected with it, or the
\* runtime ended the process on it.
FailsWith(error) ==
    \/ pc = "rejected" /\ initError = error
    \/ pc = "crashed" /\ unhandledRejections # <<>>
           /\ unhandledRejections[Len(unhandledRejections)] = error

\* C1: when the release workflow was found with a status other than
\* "success", initialize(branchName) never completes successfully.
C1_UnsuccessfulReleaseNeverResolves ==
    Unsuccessful(packageAndReleaseWorkflow) => pc # "resolved"

\* C2: with a successful release workflow and an unsuccessful tests
\* workflow, initialize fails with the error that names the tests workflow
\* and its status; it does not go on to the job lists or complete.
C2_UnsuccessfulTestsFailsInitialize ==
    (Found(packageAndReleaseWorkflow)
        /\ ~Unsuccessful(packageAndReleaseWorkflow)
        /\ Unsuccessful(testsWorkflow))
        => FailsWith(WorkflowStatusError(testsWorkflow))

\* C3: a job-list GET is issued only after both workflows were found with
\* status "success", and after an unsuccessful release check the second
\* workflow-list GET is not issued.
C3_JobListsOnlyAfterBothChecks ==
    /\ JobListRequests # {} =>
           /\ Found(packageAndReleaseWorkflow)
           /\ Found(testsWorkflow)
           /\ packageAndReleaseWorkflow.status = "success"
           /\ testsWorkflow.status = "success"
    /\ (Unsuccessful(packageAndReleaseWorkflow) /\ pc # "crashed")
           => Cardinality(WorkflowListRequests) <= 1

C5_EveryRequestAuthenticated ==
    \A i \in 1..Len(requests) : requests[i].headers = AuthenticationHeader

\* C6: a lookup whose artifact list arrived returns the url of the first
\* entry, in list order, whose path contains the fragment: of several
\* entries that qualify, the earliest.
C6_FirstMatchInListOrder ==
    [][\A resp \in Responses(Artifacts, MaxArtifacts) :
          (resp.status = "ok" /\ ArtifactsResponse(resp))
          => \A i \in 1..Len(resp.items) :
                 (/\ Contains(resp.items[i].path, lookup.artifactPath)
                  /\ \A j \in 1..(i - 1) :
                         ~Contains(resp.items[j].path, lookup.artifactPath))
                 => /\ lookupResult'.kind = "url"
                    /\ lookupResult'.url = resp.items[i].url]_vars

C6_Witness ==
    /\ pc = "resolved"
    /\ lookupResult.kind = "url"
    /\ lookupResult.candidates >= 2

\* C7: a lookup whose artifact list has no entry containing the fragment
\* fails with an error of the resolver that describes what was not found,
\* and returns no url.
C7_NoMatchFailsDescriptively ==
    lookupResult.candidates = 0
        => /\ lookupResult.kind = "throw"
           /\ lookupResult.error.name = "Error"

\* C8: when the workflow list holds no release workflow, initialize fails
\* at that step and issues no further request.
C8_AbsentReleaseStopsInitialize ==
    (packageAndReleaseWorkflow = Undefined /\ unhandledRejections # <<>>
        /\ pc # "crashed")
        => /\ pc = "rejected"
           /\ Len(requests) = 2

\* C9: both job-list GETs are issued before initialize awaits either, and
\* this.jobs is set only when both responses have arrived.
C9_JobsSetOnlyAfterBothArrived ==
    /\ pc = "awaitJobs" =>
           /\ Cardinality(JobListRequests) = 2
           /\ \A i \in 1..2 : jobsResults[i].state # "none"
    /\ jobs # Undefined =>
           /\ \A i \in 1..2 : jobsResults[i].state = "arrived"
           /\ Len(arrivals) = 2

C9_Witness ==
    /\ pc = "awaitJobs"
    /\ jobsResults[2].state = "arrived"
    /\ jobsResults[2].items # <<>>
    /\ jobsResults[1].state = "pending"
    /\ jobs = Undefined

\* C10: whatever the order of arrival of the two job lists, this.jobs is
\* the release workflow's list followed by the tests workflow's list.
C10_AggregateIndependentOfArrival ==
    pc = "resolved" =>
        jobs = Array(SentFor(1, arrivals) \o SentFor(2, arrivals))

C10_Witness ==
    /\ pc = "resolved"
    /\ arrivals[1].index = 2
    /\ Len(SentFor(1, arrivals)) = 2
    /\ Len(SentFor(2, arrivals)) = 2
    /\ SentFor(1, arrivals) # SentFor(2, arrivals)

\* The requests of initialize (every request but the artifact lists), and
\* the order initialize issues them in.
InitializeRequests(history) ==
    SelectSeq(history, LAMBDA r : r.endpoint # "artifacts")

InitializeOrder == <<"pipeline", "workflow", "workflow", "job", "job">>

ArtifactListRequests ==
    {i \in 1..Len(requests) : requests[i].endpoint = "artifacts"}

\* A response on which the HTTP call reports an error (response.error).
ErrorResponse == [status |-> "error", items |-> <<>>]

\* C11: when the server answered one of the two job-list fetches with a
\* failure, initialize has failed and this.jobs is still unset, whatever
\* the other fetch brought.
C11_FailedJobListLeavesJobsUnset ==
    (\E k \in 1..Len(arrivals) : arrivals[k].response.status # "ok")
        => /\ jobs = Undefined
           /\ pc \in {"rejected", "crashed"}
           /\ initError # NoError

C11_Witness ==
    /\ Len(arrivals) = 2
    /\ arrivals[1].response.status = "ok"
    /\ arrivals[1].response.items # <<>>
    /\ arrivals[2].response.status # "ok"
    /\ pc = "rejected"
    /\ jobs = Undefined

\* C12: a lookup called while initialize has not completed successfully
\* (not called, in progress or failed) throws at once, issues no
\* artifact-list GET and is never left waiting for one; no lookup is in
\* progress or has returned a url on such a resolver.
C12_NoLookupBeforeInitialize ==
    /\ [](pc # "resolved" =>
            /\ lookup.pc = "idle"
            /\ lookupResult.kind # "url"
            /\ ArtifactListRequests = {})
    /\ [][\A jobName \in JobNames, artifactPath \in Fragments :
            (pc # "resolved" /\ FindUrlForJob(jobName, artifactPath))
            => /\ lookupResult'.kind = "throw"
               /\ requests' = requests
               /\ lookup'.pc = "idle"]_vars

C12_Witness ==
    /\ pc = "awaitJobs"
    /\ jobsResults[1].state = "arrived"
    /\ jobsResults[1].items # <<>>
    /\ lookupResult.kind = "throw"
    /\ lookupResult.error = TypeErrorReading("find")

\* C13: when the HTTP call of one of the four endpoints reports an error,
\* the operation in progress fails with an Error that wraps it, issues no
\* later request and leaves this.jobs as it was.
C13_RequestErrorIsWrapped ==
    [][/\ (\/ PipelineResponse(ErrorResponse)
           \/ ReleaseWorkflowResponse(ErrorResponse)
           \/ TestsWorkflowResponse(ErrorResponse)
           \/ (pc = "awaitJobs" /\ \E index \in 1..2 :
                                      JobsResponse(index, ErrorResponse)))
          => /\ pc' = "rejected"
             /\ initError'.name = "Error"
             /\ requests' = requests
             /\ jobs' = jobs
       /\ ArtifactsResponse(ErrorResponse)
          => /\ lookupResult'.kind = "throw"
             /\ lookupResult'.error.name = "Error"
             /\ requests' = requests
             /\ jobs' = jobs]_vars

\* C14: initialize takes the pipeline at index 0 of a non-empty pipeline
\* list, and every workflow-list GET is for the id of that pipeline.
C14_FirstPipelineOnly ==
    /\ [](\A i \in WorkflowListRequests :
              pipeline # Undefined /\ requests[i].target = pipeline.id)
    /\ [][\A resp \in Responses(Pipelines, MaxPipelines) :
            (resp.status = "ok" /\ resp.items # <<>>
                /\ PipelineResponse(resp))
            => /\ pipeline'.id = resp.items[1].id
               /\ pipeline'.number = resp.items[1].number
               /\ requests'[Len(requests')].target = resp.items[1].id]_vars

C14_Witness ==
    /\ pipeline # Undefined
    /\ pipeline.number = 41
    /\ Cardinality(WorkflowListRequests) = 2
    /\ \A i \in WorkflowListRequests : requests[i].target = pipeline.id

\* C18: every lookup that finds its job issues one artifact-list GET for
\* that job's number, whether or not the same GET was issued before, and
\* the arrival of the list issues none.
C18_EveryLookupFetches ==
    [][/\ \A jobName \in JobNames, artifactPath \in Fragments :
            (/\ jobs # Undefined
             /\ findJob(jobs.items, jobName) # Undefined
             /\ FindUrlForJob(jobName, artifactPath))
            => /\ Len(requests') = Len(requests) + 1
               /\ SubSeq(requests', 1, Len(requests)) = requests
               /\ requests'[Len(requests')].endpoint = "artifacts"
               /\ requests'[Len(requests')].target =
                      findJob(jobs.items, jobName).job_number
       /\ \A resp \in Responses(Artifacts, MaxArtifacts) :
            ArtifactsResponse(resp) => requests' = requests]_vars

C18_Witness ==
    /\ lookupResult.kind = "url"
    /\ \E i, j \in ArtifactListRequests :
           i < j /\ requests[i].target = requests[j].target

\* C19: initialize issues its requests in the order pipeline list,
\* workflow list, workflow list, job list, job list; each of the first
\* three only once the response to the one before has arrived; and once
\* initialize has failed it issues no request again.
C19_RequestsInFixedOrder ==
    /\ [](LET issued == InitializeRequests(requests)
          IN  /\ Len(issued) <= Len(InitializeOrder)
              /\ \A i \in 1..Len(issued) :
                     issued[i].endpoint = InitializeOrder[i]
              /\ pc = "constructed" => Len(issued) = 0
              /\ pc = "awaitPipeline" => Len(issued) = 1
              /\ pc = "awaitReleaseWorkflow" => Len(issued) = 2
              /\ pc = "awaitTestsWorkflow" => Len(issued) = 3
              /\ pc \in {"awaitJobs", "resolved"} => Len(issued) = 5)
    /\ [][(pc \in {"rejected", "crashed"})
              => (InitializeRequests(requests') =
                      InitializeRequests(requests))]_vars

C19_Witness ==
    /\ pc = "rejected"
    /\ Len(InitializeRequests(requests)) = 5
    /\ lookups > 0

\* C15: a call of downloadArtifact(url, destination) runs `rm -rf` of the
\* destination and then `curl -Lo` of the url to it, once each and nothing
\* else; when the curl succeeded the destination is a file that holds
\* nothing of what was there before the call.
C15_RemoveThenFetch ==
    [][\A artifactURL \in DownloadUrls, destination \in Destinations,
          rmSucceeds \in BOOLEAN, curlOutcome \in CurlOutcomes :
          DownloadArtifact(artifactURL, destination, rmSucceeds, curlOutcome)
          => LET n == Len(commands)
             IN  /\ Len(commands') = n + 2
                 /\ SubSeq(commands', 1, n) = commands
                 /\ commands'[n + 1].command = Rm(destination)
                 /\ commands'[n + 2].command = Curl(artifactURL, destination)
                 /\ commands'[n + 2].code = 0 =>
                        /\ fileSystem'[destination].kind = "file"
                        /\ fileSystem'[destination].parts
                               \cap fileSystem[destination].parts = {}
                        /\ \A part \in fileSystem'[destination].parts :
                               part.from = artifactURL]_vars

\* A download whose rm failed on a file that was there and whose curl
\* succeeded: the file holds the new body only.
C15_Witness ==
    \E i \in 1..(Len(commands) - 1) :
        /\ commands[i].command.program = "rm"
        /\ commands[i].code = 1
        /\ commands[i + 1].command.program = "curl"
        /\ commands[i + 1].code = 0
        /\ commands[i + 1].command.destination = commands[i].command.destination
        /\ fileSystem[commands[i].command.destination] =
               File({Part(commands[i + 1].command.url, downloads, TRUE)})

\* The aggregated jobs hold one named jobName, and the call in hand issues
\* one artifact-list GET for the number of the first of them and waits for
\* the list with `fragment`.
HasJob(jobName) ==
    \E i \in 1..Len(jobs.items) : jobs.items[i].name = jobName

LooksUp(jobName, fragment) ==
    /\ Len(requests') = Len(requests) + 1
    /\ SubSeq(requests', 1, Len(requests)) = requests
    /\ requests'[Len(requests')].endpoint = "artifacts"
    /\ \E i \in 1..Len(jobs.items) :
           /\ jobs.items[i].name = jobName
           /\ \A j \in 1..(i - 1) : jobs.items[j].name # jobName
           /\ requests'[Len(requests')].target = jobs.items[i].job_number
    /\ lookup'.pc = "awaitArtifacts"
    /\ lookup'.artifactPath = fragment

\* C16: on a resolver whose initialize has completed, each wrapper issues
\* its artifact-list GET for the job_number of the aggregated job that has
\* the wrapper's job name, from whichever workflow it came, and, when the
\* list that arrives has entries whose path contains the wrapper's
\* fragment, returns the url of one of them.
C16_WrappersLookUpTheirJob ==
    [][/\ (ArtifactURLHermesDebug /\ HasJob(HermesDebugJob))
              => LooksUp(HermesDebugJob, HermesDebugFragment)
       /\ (ArtifactURLForMavenLocal /\ HasJob(NpmPackageJob))
              => LooksUp(NpmPackageJob, MavenLocalFragment)
       /\ (ArtifactURLForPackagedReactNative /\ HasJob(NpmPackageJob))
              => LooksUp(NpmPackageJob, PackagedFragment)
       /\ (ArtifactURLForHermesRNTesterAPK /\ HasJob(TestAndroidJob))
              => LooksUp(TestAndroidJob, HermesAPKFragment(<< device >>))
       /\ (ArtifactURLForJSCRNTesterAPK /\ HasJob(TestAndroidJob))
              => LooksUp(TestAndroidJob, JSCAPKFragment)
       /\ (lookup.pc = "awaitArtifacts" /\ lookup'.pc = "idle")
              => /\ lookupResult'.candidates > 0 => lookupResult'.kind = "url"
                 /\ lookupResult'.kind = "url" =>
                        \E i \in 1..Len(WrapperArtifacts) :
                            /\ WrapperArtifacts[i].url = lookupResult'.url
                            /\ Contains(WrapperArtifacts[i].path,
                                        lookup.artifactPath)]_vars

\* The Hermes debug wrapper returned its url for job 7, which came from
\* the tests workflow's list and not from the release workflow's.
C16_Witness ==
    /\ lookupResult.kind = "url"
    /\ lookupResult.url = "url-hermes-ios-debug"
    /\ requests[Len(requests)].target = 7
    /\ \A i \in 1..Len(jobsResults[1].items) :
           jobsResults[1].items[i].name # HermesDebugJob
    /\ \E i \in 1..Len(jobsResults[2].items) :
           jobsResults[2].items[i].name = HermesDebugJob

\* C17: the fragment either APK wrapper looks up names the ABI the
\* connected device reports when the wrapper is called.
C17_APKFragmentNamesDeviceABI ==
    [][((ArtifactURLForHermesRNTesterAPK \/ ArtifactURLForJSCRNTesterAPK)
           /\ lookup'.pc = "awaitArtifacts")
          => Contains(lookup'.artifactPath, << device >>)]_vars

\* C20: without a token setupCircleCIArtifacts returns null and no CI
\* request is issued; with a token its promise settles by returning the
\* resolver, on which initialize has completed; and main calls the test
\* only after that.
C20_SetupBeforeTest ==
    /\ (argv.circleciToken = Undefined /\ main.setup.state # "none")
           => main.setup = SetupReturned(Null) /\ requests = <<>>
    /\ (argv.circleciToken # Undefined
           /\ main.setup.state \in {"fulfilled", "rejected"})
           => /\ main.setup.state = "fulfilled"
              /\ main.setup.value # Null
              /\ pc = "resolved"
    /\ (argv.circleciToken # Undefined /\ main.test # "")
           => pc = "resolved"

\* The places in the log of the commands of a program.
StepsOf(program) ==
    {i \in 1..Len(commands) : commands[i].command.program = program}

\* C21: a testRNTestProject call that uses CI artifacts runs its steps, and
\* when template update, npm pack, project init and pod install run the
\* three downloads have completed, and pod install is given the Hermes
\* path string that prepareArtifacts returned.
C21_ArtifactsReadyBeforeProjectSteps ==
    (test.name = "testRNTestProject" /\ test.circleCIArtifacts # Null) =>
        /\ test.pc = "resolved"
        /\ \A i \in StepsOf("pod install") :
               commands[i].command.destination =
                   join(baseTmpPath, "hermes-ios-debug.tar.gz")
        /\ \A i \in StepsOf("updateTemplatePackage") \cup StepsOf("npm pack")
                    \cup StepsOf("cli.js init") \cup StepsOf("pod install") :
               Cardinality({c \in StepsOf("curl") : c < i}) = 3

\* C22: a call of baseTmpPath() on the resolver returns the path the
\* resolver was constructed with.
C22_BaseTmpPathReturnsConstructedPath ==
    test.baseTmpPath.kind # "none" =>
        test.baseTmpPath = PathReturned(baseTmpPath)

\* C23: maybeLaunchAndroidEmulator launches nothing when a device is
\* connected; when none is connected it launches the first listed
\* emulator, and nothing when none is listed.
C23_EmulatorLaunchedUnlessDeviceConnected ==
    test.emulator.called =>
        LET found == test.emulator
        IN  /\ found.connected => found.launched = ""
            /\ (~found.connected /\ Len(found.listed) > 0) =>
                   found.launched = found.listed[1]
            /\ (~found.connected /\ Len(found.listed) = 0) =>
                   found.launched = ""

\* C24: isPackagerRunning returns 'running' exactly when the status body is
\* 'packager-status:running', 'not_running' when the status request fails
\* and 'unrecognized' otherwise; main sends the kill only in the first
\* case, and before anything else it runs: the kill is the first command,
\* ahead of the construction of the resolver and so of every CI request.
C24_PackagerStatusAndKill ==
    main.pc \notin {"none", "start"} =>
        /\ main.isPackagerRunning =
               IF main.packager.stdout = "packager-status:running"
               THEN "running"
               ELSE IF main.packager.code # 0 THEN "not_running"
               ELSE "unrecognized"
        /\ (StepsOf("kill") # {}) <=> (main.isPackagerRunning = "running")
        /\ StepsOf("kill") \subseteq {1}

\* C25: with two initialize calls on the module-level resolver, every
\* request issued on behalf of a call bears that call's own token, and
\* once the first call has completed the module's jobs are the first
\* call's jobs, so that a lookup resolves against them.
C25_CallsKeepTheirOwnState ==
    /\ \A c \in DOMAIN initializeCalls :
           \A i \in 1..Len(initializeCalls[c].requests) :
               initializeCalls[c].requests[i].headers =
                   [CircleToken |-> initializeCalls[c].circleCIToken]
    /\ (Len(initializeCalls) > 0 /\ initializeCalls[1].pc = "resolved") =>
           testingUtils.jobs = Array(flatMap(initializeCalls[1].jobsResults))

====
